---- MODULE Spec2Model ----
(***************************************************************************)
(* SQLFileExecutor: extraction of SQL statements from text files and       *)
(* their execution on one database connection.                             *)
(*                                                                         *)
(* A file's text is a sequence of tokens.  A token is one character,       *)
(* except that a reserved word of SQLCOMMANDS is one token: no reserved    *)
(* word is a prefix, suffix or infix of another, so the alternation of     *)
(* the statement pattern matches a reserved word as a unit.                *)
(* Python indexes from 0, the model from 1.                                *)
(***************************************************************************)
EXTENDS Integers, Sequences, FiniteSets, TLC

\* ---------------------------------------------------------------- bounds
MaxLen == 5
MaxFiles == 2

\* ------------------------------------------------------------ extraction
VARIABLES contents, commands, extracted

SQLCOMMANDS == {"SELECT", "INSERT", "DELETE", "UPDATE", "CREATE", "ALTER", "DROP"}

\* re.IGNORECASE on the reserved words
Upper(tok) == IF tok = "drop" THEN "DROP" ELSE tok

IsSqlCommand(tok) == Upper(tok) \in SQLCOMMANDS

\* [ \t] of the statement pattern
Blank == {" ", "\t"}

\* what str.strip() removes
Whitespace == {" ", "\t", "\n"}

Min(S) == CHOOSE x \in S : \A y \in S : x <= y

\* A text whose tokens remember the position they were read at.
Mark(text) == [i \in 1..Len(text) |-> [ch |-> text[i], at |-> i]]

Unmark(s) == [i \in 1..Len(s) |-> s[i].ch]

\* sqlcommreg.sub('', contents) with sqlcommreg = ^-+.*$ compiled without
\* re.MULTILINE: ^ is the start of the text only, $ the end of the text or
\* the place before a final newline, and . is not a newline.
sqlcommreg_sub(s) ==
    LET n == Len(s)
        nl == {i \in 1..n : s[i].ch = "\n"}
        stop == IF nl = {} THEN n + 1 ELSE Min(nl)
    IN  IF n >= 1 /\ s[1].ch = "-" /\ stop >= n
        THEN SubSeq(s, stop, n)
        ELSE s

\* sqlreg.findall(contents) with sqlreg = (?:words)[ \t]+.*?; under
\* re.DOTALL: leftmost, non-overlapping, up to the first ';'.
RECURSIVE sqlreg_findall(_, _)
sqlreg_findall(s, from) ==
    LET n == Len(s)
        Ends(a) == {c \in (a + 2)..n : s[c].ch = ";"}
        starts == {a \in from..(n - 1) :
                      /\ IsSqlCommand(s[a].ch)
                      /\ s[a + 1].ch \in Blank
                      /\ Ends(a) # {}}
    IN  IF starts = {}
        THEN << >>
        ELSE LET a == Min(starts)
                 c == Min(Ends(a))
             IN  <<SubSeq(s, a, c)>> \o sqlreg_findall(s, c + 1)

\* sql.strip()
strip(s) ==
    LET keep == {i \in 1..Len(s) : s[i].ch \notin Whitespace}
    IN  IF keep = {} THEN << >>
        ELSE SubSeq(s, Min(keep), CHOOSE x \in keep : \A y \in keep : y <= x)

NotSemicolon(e) == e.ch # ";"

\* delfn = lambda sql: sql.replace("\n", " ").replace(";", "")
delfn(s) ==
    SelectSeq([i \in 1..Len(s) |->
                  IF s[i].ch = "\n" THEN [ch |-> " ", at |-> s[i].at] ELSE s[i]],
              NotSemicolon)

\* The body of the try block of _read_sql for one file.
extract_marked(text) ==
    LET stripped == sqlcommreg_sub(Mark(text))
        found == sqlreg_findall(stripped, 1)
    IN  [k \in 1..Len(found) |-> delfn(strip(found[k]))]

extract_commands(text) ==
    LET m == extract_marked(text)
    IN  [k \in 1..Len(m) |-> Unmark(m[k])]

Alphabet == {"CREATE", "drop", " ", "\n", ";", "-", "x"}

Texts == UNION {[1..n -> Alphabet] : n \in 0..MaxLen}

xvars == <<contents, commands, extracted>>


\* -------------------------------------------------------------- the run
VARIABLES entry, fs, exclude_file, include_file, working, sql_files,
          sql_commands, sqlexec, dbcon, cur, pc, rd, idx, sidx, exc,
          exit_code, status, events, out

Files == {"a.sql", "b.sql", "c.sql"}

\* The text of each file on disk.
FileContents ==
    [f \in Files |->
        CASE f = "a.sql" -> <<"CREATE", " ", "x", ";", "\n",
                              "CREATE", " ", "y", "\n", "x", ";">>
          [] f = "b.sql" -> <<"-", "-", "x", "\n", "drop", " ", "x", ";">>
          [] OTHER       -> <<"-", "x">>]

\* The lines of the exclude file, when it can be read.
ExcludeLines == {"b.sql"}

\* ok: open() and read() succeed; missing: the path does not exist;
\* locked: the path exists and open() raises; garbled: read() raises an
\* error that is not an IOError (undecodable bytes).
FileStates == {"ok", "missing", "locked", "garbled"}

FileLists == UNION {[1..n -> Files] : n \in 0..MaxFiles}

NoExc == [type |-> "none", site |-> "none", file |-> "none", sql |-> << >>]

\* An exception as its raiser builds it: the driver and the runtime know
\* neither the file nor, as a field of the error, the statement.
Raised(type, site) == [type |-> type, site |-> site, file |-> "none", sql |-> << >>]

Event(op, f, s, res) == [op |-> op, f |-> f, s |-> s, res |-> res]

Line(kind, file, sql) == [line |-> kind, file |-> file, sql |-> sql]

rvars == <<entry, fs, exclude_file, include_file, working, sql_files,
           sql_commands, sqlexec, dbcon, cur, pc, rd, idx, sidx, exc,
           exit_code, status, events, out>>

vars == <<contents, commands, extracted, entry, fs, exclude_file,
          include_file, working, sql_files, sql_commands, sqlexec, dbcon,
          cur, pc, rd, idx, sidx, exc, exit_code, status, events, out>>

RunIdle ==
    /\ entry = "none" /\ fs = [f \in Files |-> "ok"] /\ exclude_file = "none"
    /\ include_file = << >> /\ working = << >> /\ sql_files = << >>
    /\ sql_commands = << >> /\ sqlexec = "None" /\ dbcon = "None"
    /\ cur = "None" /\ pc = "idle" /\ rd = 1 /\ idx = 1 /\ sidx = 1 /\ exc = NoExc
    /\ exit_code = 0 /\ status = -1 /\ events = << >> /\ out = << >>

\* entry = "cmd": the command of fsqlexec.py is started with include_file
\* and exclude_file.  entry = "api": a caller holding an open connection
\* constructs SQLFileExecutor(include_file, dbcon) and calls exec().
Init ==
    /\ contents = << >> /\ commands = << >> /\ extracted = FALSE
    /\ entry \in {"cmd", "api"}
    /\ fs \in [Files -> FileStates]
    /\ include_file \in FileLists
    /\ exclude_file \in IF entry = "cmd"
                        THEN {"none", "ok", "missing", "locked"}
                        ELSE {"none"}
    /\ working = IF entry = "api" THEN include_file ELSE << >>
    /\ dbcon = IF entry = "api" THEN "open" ELSE "None"
    /\ pc = IF entry = "api" THEN "new" ELSE "cmd"
    /\ sql_files = << >> /\ sql_commands = << >> /\ sqlexec = "None"
    /\ cur = "None" /\ rd = 1 /\ idx = 1 /\ sidx = 1 /\ exc = NoExc
    /\ exit_code = 0 /\ status = -1 /\ events = << >> /\ out = << >>

\* Where an exception that leaves the constructor or exec() goes.
Thrown == IF entry = "cmd" THEN "except" ELSE "done"

NotExcluded(f) == f \notin ExcludeLines

\* create_sql_files: fname_line_to_array, the filter, check_file_list_exists
CreateSqlFiles ==
    /\ pc = "cmd"
    /\ LET ret == IF exclude_file = "none" THEN include_file
                  ELSE SelectSeq(include_file, NotExcluded)
           absent == {i \in 1..Len(ret) : fs[ret[i]] = "missing"}
       IN  IF exclude_file \in {"missing", "locked"}
           THEN /\ exc' = Raised("IOError", "exclude")
                /\ pc' = "except"
                /\ UNCHANGED working
           ELSE IF absent # {}
           THEN /\ exc' = Raised("IOError", "check")
                /\ pc' = "except"
                /\ UNCHANGED working
           ELSE /\ working' = ret
                /\ pc' = "create"
                /\ UNCHANGED exc
    /\ UNCHANGED <<entry, fs, exclude_file, include_file, sql_files,
                   sql_commands, sqlexec, dbcon, cur, rd, idx, sidx, exit_code,
                   status, events, out>>
    /\ UNCHANGED xvars

\* create_SQLFileExecutor up to the constructor call: the connection
\* provider reads the ini file and connects.
Connect ==
    /\ pc = "create"
    /\ \E r \in {"ok", "IOError", "SQLException"} :
          IF r = "ok"
          THEN /\ dbcon' = "open"
               /\ pc' = "new"
               /\ UNCHANGED exc
          ELSE /\ exc' = Raised(r, "connect")
               /\ pc' = "except"
               /\ UNCHANGED dbcon
    /\ UNCHANGED <<entry, fs, exclude_file, include_file, working, sql_files,
                   sql_commands, sqlexec, cur, rd, idx, sidx, exit_code, status,
                   events, out>>
    /\ UNCHANGED xvars

\* __init__ before the call of _read_sql
Construct ==
    /\ pc = "new"
    /\ sql_files' = working
    /\ sql_commands' = << >>
    /\ rd' = 1
    /\ pc' = "read"
    /\ UNCHANGED <<entry, fs, exclude_file, include_file, working, sqlexec,
                   dbcon, cur, idx, sidx, exc, exit_code, status, events,
                   out>>
    /\ UNCHANGED xvars

\* As Opens, with a path that exists always opened.
Opens_existing(state) == state # "missing"

\* open(fname, 'r') returns a file
Opens(state) == state \in {"ok", "garbled"}

\* As Appended, with a file that holds no statement left out.
Appended_nonempty(all, cmds) == IF cmds = << >> THEN all ELSE Append(all, cmds)

\* self.__sql_commands.append(commands)
Appended(all, cmds) == Append(all, cmds)

\* One iteration of the loop of _read_sql.
ReadSqlFile ==
    /\ pc = "read"
    /\ rd <= Len(sql_files)
    /\ LET fname == sql_files[rd]
       IN  IF ~Opens(fs[fname])
           THEN /\ exc' = Raised("IOError", "open")
                /\ pc' = Thrown
                /\ UNCHANGED <<sql_commands, rd>>
           ELSE IF fs[fname] = "garbled"
           THEN /\ exc' = Raised("Other", "read")
                /\ pc' = Thrown
                /\ UNCHANGED <<sql_commands, rd>>
           ELSE /\ sql_commands' = Appended(sql_commands,
                                            extract_commands(FileContents[fname]))
                /\ rd' = rd + 1
                /\ UNCHANGED <<pc, exc>>
    /\ UNCHANGED <<entry, fs, exclude_file, include_file, working, sql_files,
                   sqlexec, dbcon, cur, idx, sidx, exit_code, status, events, out>>
    /\ UNCHANGED xvars

\* The loop of _read_sql is over: the constructor returns and the caller
\* holds the object and calls exec().
ReadSqlDone ==
    /\ pc = "read"
    /\ rd > Len(sql_files)
    /\ sqlexec' = "object"
    /\ pc' = "cursor"
    /\ UNCHANGED <<entry, fs, exclude_file, include_file, working, sql_files,
                   sql_commands, dbcon, cur, rd, idx, sidx, exc, exit_code,
                   status, events, out>>
    /\ UNCHANGED xvars



\* -------------------------------------------------------------- exec()
\* As FileOf, with the first file named whatever the index.
FileOf_first(i) == sql_files[1]

\* self.sql_files[idx] of the error line
FileOf(i) == sql_files[i]

\* As BetweenFiles, with a commit after each file.
BetweenFiles_commit == <<Event("commit", 0, 0, "ok")>>

\* What exec() issues on the connection between the statements of one file
\* and those of the next: nothing.
BetweenFiles == << >>

\* As Following, with every other statement skipped.
Following_skip(j) == j + 2

\* The statement the inner loop takes after one that executed.
Following(j) == j + 1

\* dbcon.cursor(cursor_factory=...) and, when it raises, the handler of
\* psycopg2.Error of the outer try.
AcquireCursor ==
    /\ pc = "cursor"
    /\ \E r \in {"ok", "Error"} :
          /\ events' = Append(events, Event("cursor", 0, 0, r))
          /\ IF r = "ok"
             THEN /\ cur' = "open"
                  /\ idx' = 1
                  /\ sidx' = 1
                  /\ pc' = "execute"
                  /\ UNCHANGED <<exc, out>>
             ELSE /\ exc' = Raised("Error", "cursor")
                  /\ out' = Append(out, Line("cursor_error", "none", << >>))
                  /\ pc' = "finally"
                  /\ UNCHANGED <<cur, idx, sidx>>
    /\ UNCHANGED <<entry, fs, exclude_file, include_file, working, sql_files,
                   sql_commands, sqlexec, dbcon, rd, exit_code, status>>
    /\ UNCHANGED xvars

\* cur.execute(sql) for the statement the loops are at, with the handlers
\* of the inner try and, for what they raise again, the handler of the
\* outer try.
ExecuteStatement ==
    /\ pc = "execute"
    /\ idx <= Len(sql_commands)
    /\ sidx <= Len(sql_commands[idx])
    /\ \E r \in {"ok", "InternalError", "Error", "Other"} :
          /\ events' = Append(events, Event("execute", idx, sidx, r))
          /\ CASE r = "ok" ->
                     /\ sidx' = Following(sidx)
                     /\ UNCHANGED <<pc, exc, out>>
               [] r \in {"InternalError", "Error"} ->
                     /\ out' = out \o
                           <<Line("statement_error", FileOf(idx),
                                  sql_commands[idx][sidx]),
                             Line("cursor_error", "none", << >>)>>
                     /\ exc' = Raised(r, "execute")
                     /\ pc' = "finally"
                     /\ UNCHANGED sidx
               [] OTHER ->
                     /\ exc' = Raised(r, "execute")
                     /\ pc' = "finally"
                     /\ UNCHANGED <<sidx, out>>
    /\ UNCHANGED <<entry, fs, exclude_file, include_file, working, sql_files,
                   sql_commands, sqlexec, dbcon, cur, rd, idx, exit_code,
                   status>>
    /\ UNCHANGED xvars

\* The inner loop is over for the file at idx: the outer loop goes on.
NextFile ==
    /\ pc = "execute"
    /\ idx <= Len(sql_commands)
    /\ sidx > Len(sql_commands[idx])
    /\ idx' = idx + 1
    /\ sidx' = 1
    /\ events' = events \o BetweenFiles
    /\ UNCHANGED <<entry, fs, exclude_file, include_file, working, sql_files,
                   sql_commands, sqlexec, dbcon, cur, pc, rd, exc, exit_code,
                   status, out>>
    /\ UNCHANGED xvars

\* The outer loop is over: the try block ends without an exception.
LoopsDone ==
    /\ pc = "execute"
    /\ idx > Len(sql_commands)
    /\ pc' = "finally"
    /\ UNCHANGED <<entry, fs, exclude_file, include_file, working, sql_files,
                   sql_commands, sqlexec, dbcon, cur, rd, idx, sidx, exc,
                   exit_code, status, events, out>>
    /\ UNCHANGED xvars

\* The finally block of exec(): dbcon.commit(), then cur.close(); an
\* exception raised here replaces the one that was propagating.
ExecFinally ==
    /\ pc = "finally"
    /\ \E r \in {"ok", "Error"} :
          LET e == IF r = "Error" THEN Raised("Error", "commit")
                   ELSE IF cur = "None" THEN Raised("AttributeError", "close")
                   ELSE exc
          IN  /\ exc' = e
              /\ IF r = "ok" /\ cur # "None"
                 THEN /\ cur' = "closed"
                      /\ events' = events \o <<Event("commit", 0, 0, r),
                                               Event("close", 0, 0, "ok")>>
                 ELSE /\ events' = Append(events, Event("commit", 0, 0, r))
                      /\ UNCHANGED cur
              /\ pc' = IF entry = "api" THEN "done"
                       ELSE IF e = NoExc THEN "cleanup" ELSE "except"
    /\ UNCHANGED <<entry, fs, exclude_file, include_file, working, sql_files,
                   sql_commands, sqlexec, dbcon, rd, idx, sidx, exit_code,
                   status, out>>
    /\ UNCHANGED xvars

\* ----------------------------------------------------------------- cmd
\* The except clauses of cmd: sys.exit(2) for IOError, sys.exit(3) for any
\* other Exception.
CmdExcept ==
    /\ pc = "except"
    /\ exit_code' = IF exc.type = "IOError" THEN 2 ELSE 3
    /\ pc' = "cleanup"
    /\ UNCHANGED <<entry, fs, exclude_file, include_file, working, sql_files,
                   sql_commands, sqlexec, dbcon, cur, rd, idx, sidx, exc,
                   status, events, out>>
    /\ UNCHANGED xvars

\* The finally clause of cmd, then the end of the process.  The class has
\* no attribute close: sqlexec.close() raises AttributeError, which replaces
\* the pending SystemExit or normal return, and the interpreter ends with
\* status 1 on the uncaught exception.
CmdFinally ==
    /\ pc = "cleanup"
    /\ IF sqlexec # "None"
       THEN /\ exc' = Raised("AttributeError", "cmd_close")
            /\ status' = 1
       ELSE /\ status' = exit_code
            /\ UNCHANGED exc
    /\ pc' = "done"
    /\ UNCHANGED <<entry, fs, exclude_file, include_file, working, sql_files,
                   sql_commands, sqlexec, dbcon, cur, rd, idx, sidx, exit_code,
                   events, out>>
    /\ UNCHANGED xvars

Next ==
    \/ CreateSqlFiles
    \/ Connect
    \/ Construct
    \/ ReadSqlFile
    \/ ReadSqlDone
    \/ AcquireCursor
    \/ ExecuteStatement
    \/ NextFile
    \/ LoopsDone
    \/ ExecFinally
    \/ CmdExcept
    \/ CmdFinally

Spec == Init /\ [][Next]_vars

\* ------------------------------------------- extraction over all texts
XInit ==
    /\ contents \in Texts
    /\ commands = << >>
    /\ extracted = FALSE
    /\ RunIdle

\* The try block of _read_sql applied to one file whose text is contents.
ReadOneFile ==
    /\ ~extracted
    /\ commands' = extract_marked(contents)
    /\ extracted' = TRUE
    /\ UNCHANGED contents
    /\ UNCHANGED rvars

XNext == ReadOneFile

SpecExtract == XInit /\ [][XNext]_vars


\* ------------------------------------------------------------ properties
IsExecute(e) == e.op = "execute"

\* The calls of cur.execute so far, in the order they were made.
Executed == SelectSeq(events, IsExecute)

Commits == {k \in 1..Len(events) : events[k].op = "commit"}

Executes == {k \in 1..Len(events) : events[k].op = "execute"}

FailedExecutes == {k \in Executes : events[k].res # "ok"}

CursorAcquired == \E k \in 1..Len(events) :
                     events[k].op = "cursor" /\ events[k].res = "ok"

CursorFailed == \E k \in 1..Len(events) :
                   events[k].op = "cursor" /\ events[k].res # "ok"

RECURSIVE StatementsBefore(_)
StatementsBefore(i) ==
    IF i <= 1 THEN 0 ELSE StatementsBefore(i - 1) + Len(sql_commands[i - 1])

TotalStatements == StatementsBefore(Len(sql_commands) + 1)

\* exec() has returned or raised, and exc is what it raised (NoExc when it
\* returned).
AfterExec ==
    /\ sqlexec = "object"
    /\ \/ pc \in {"except", "cleanup"}
       \/ pc = "done" /\ entry = "api"

\* C2: the calls of cur.execute are a prefix of the statements taken file by
\* file in constructor order and, within a file, in extraction order, each
\* once; a call that failed is the last call.
C2_InOrderStopAtFailure ==
    \A k \in 1..Len(Executed) :
        /\ Executed[k].f \in 1..Len(sql_commands)
        /\ Executed[k].s \in 1..Len(sql_commands[Executed[k].f])
        /\ StatementsBefore(Executed[k].f) + Executed[k].s = k
        /\ (Executed[k].res # "ok" => k = Len(Executed))

C2_Witness ==
    /\ AfterExec
    /\ Len(sql_files) = 2
    /\ Len(Executed) = 2
    /\ Executed[2].res # "ok"
    /\ TotalStatements > 2

\* C3: no commit is issued before a call of cur.execute, at most one commit
\* is issued, and when exec() has ended with every statement of every file
\* executed without error exactly one commit was issued.
C3_CommitOnceAtEnd ==
    /\ \A c \in Commits : \A e \in Executes : e < c
    /\ Cardinality(Commits) <= 1
    /\ (AfterExec /\ FailedExecutes = {} /\ Len(Executed) = TotalStatements
           => Cardinality(Commits) = 1)

C3_Witness ==
    /\ AfterExec
    /\ FailedExecutes = {}
    /\ Len(sql_files) = 2
    /\ sql_commands[1] # << >> /\ sql_commands[2] # << >>
    /\ Len(Executed) = TotalStatements
    /\ Cardinality(Commits) = 1

\* A span of a file's text as one statement: without its terminator, each
\* newline a space.
OneLine(span) ==
    [i \in 1..(Len(span) - 1) |-> IF span[i] = "\n" THEN " " ELSE span[i]]

\* stmts are, in this order, disjoint spans of text from position from on,
\* each from a reserved word to a terminator.
RECURSIVE InOrder(_, _, _)
InOrder(text, from, stmts) ==
    IF stmts = << >> THEN TRUE
    ELSE \E a \in from..Len(text) : \E c \in a..Len(text) :
            /\ IsSqlCommand(text[a])
            /\ text[c] = ";"
            /\ OneLine(SubSeq(text, a, c)) = Head(stmts)
            /\ InOrder(text, c + 1, Tail(stmts))

\* The text holds a reserved word, a blank after it and a terminator later.
HasStatement(text) ==
    \E a \in 1..Len(text) : \E c \in (a + 2)..Len(text) :
        IsSqlCommand(text[a]) /\ text[a + 1] \in Blank /\ text[c] = ";"

\* C4: once the constructor has returned, sql_commands has one entry per
\* file of sql_files; entry i is made of spans of file i in the order they
\* appear in it, is empty when file i holds no statement, and is not empty
\* when file i holds one outside a leading comment.
C4_OneEntryPerFile ==
    sqlexec = "object" =>
        /\ Len(sql_commands) = Len(sql_files)
        /\ \A i \in 1..Len(sql_commands) :
              LET text == FileContents[sql_files[i]]
              IN  /\ InOrder(text, 1, sql_commands[i])
                  /\ (~HasStatement(text) => sql_commands[i] = << >>)
                  /\ (HasStatement(text) /\ text[1] # "-"
                         => sql_commands[i] # << >>)

C4_Witness ==
    /\ sqlexec = "object"
    /\ Len(sql_files) = 2
    /\ sql_commands[1] = << >>
    /\ Len(sql_commands[2]) = 2


\* The first call of cur.execute that failed (there is at most one).
FailedStatement == events[CHOOSE k \in FailedExecutes : TRUE]

\* C1: when a statement failed, exec() has issued no commit on the
\* connection, its finally block included.
C1_NoCommitAfterFailure ==
    AfterExec /\ FailedExecutes # {} => Commits = {}

\* C6, as stated: the error that reaches the caller of exec() after a
\* statement failed holds the file and the text of that statement.
C6_ErrorCarriesFileAndStatement ==
    AfterExec /\ FailedExecutes # {} =>
        /\ exc.file = sql_files[FailedStatement.f]
        /\ exc.sql = sql_commands[FailedStatement.f][FailedStatement.s]

\* C6, amended: when a statement failed with a psycopg2 error, exec() has
\* printed exactly one line 'Error: SQLFile=...,SQL ...' and that line names
\* the file and the text of the failing statement; the error that reaches
\* the caller is the driver's error of that statement, or of the commit of
\* the finally block, and names no file.
C6_FilePrintedNotCarried ==
    AfterExec /\ FailedExecutes # {} /\ FailedStatement.res # "Other" =>
        LET named == {k \in 1..Len(out) : out[k].line = "statement_error"}
        IN  /\ Cardinality(named) = 1
            /\ \A k \in named :
                  /\ out[k].file = sql_files[FailedStatement.f]
                  /\ out[k].sql =
                        sql_commands[FailedStatement.f][FailedStatement.s]
            /\ \/ exc.site = "execute" /\ exc.type = FailedStatement.res
               \/ exc.site = "commit"
            /\ exc.file = "none"

C6_Witness ==
    /\ AfterExec
    /\ FailedExecutes # {}
    /\ FailedStatement.res = "InternalError"
    /\ FailedStatement.f = 2
    /\ sql_files[1] # sql_files[2]
    /\ exc.site = "execute"

\* C7: when exec() has ended after it acquired a cursor, the cursor is
\* closed.
C7_CursorClosedOnEveryPath ==
    AfterExec /\ CursorAcquired => cur = "closed"

\* C8: when acquiring the cursor failed, no statement was executed and the
\* error that reaches the caller is the error of dbcon.cursor; and a
\* statement failure is not reported by the line of the cursor error.
C8_CursorErrorDistinct ==
    /\ (AfterExec /\ CursorFailed =>
           /\ Executes = {}
           /\ exc = Raised("Error", "cursor"))
    /\ (FailedExecutes # {} =>
           \A k \in 1..Len(out) : out[k].line # "cursor_error")

\* The list the constructor is given: the arguments without the lines of
\* the exclude file.
WorkingList ==
    IF entry = "cmd" /\ exclude_file # "none"
    THEN SelectSeq(include_file, NotExcluded)
    ELSE include_file

\* A file of the working list does not exist or cannot be opened.
BadFileListed ==
    /\ exclude_file \in {"none", "ok"}
    /\ \E i \in 1..Len(WorkingList) : fs[WorkingList[i]] \in {"missing", "locked"}

\* C9, as stated: with such a file in the working list the run ends with an
\* IOError and no statement is executed.
C9_IOErrorAndNothingExecuted ==
    BadFileListed =>
        /\ Executes = {}
        /\ (pc = "done" => exc.type = "IOError")

\* C9, amended: with such a file in the working list no statement is ever
\* executed and the run ends with an error before exec() is called; the
\* error is an IOError unless the connection provider failed or the reading
\* of a file listed earlier failed first.
C9_NothingExecutedRunFails ==
    BadFileListed =>
        /\ Executes = {}
        /\ pc \notin {"cursor", "execute", "finally"}
        /\ sqlexec = "None"
        /\ (pc = "done" =>
               /\ exc # NoExc
               /\ (entry = "cmd" => status \in {2, 3})
               /\ (exc.type = "IOError" \/ exc.site \in {"connect", "read"})
               /\ (exc.site \in {"check", "open"} => exc.type = "IOError"))

C9_Witness ==
    /\ BadFileListed
    /\ pc = "done"
    /\ exc = Raised("IOError", "open")
    /\ rd = 2
    /\ Len(sql_commands) = 1
    /\ sql_commands[1] # << >>

\* The run of cmd ended with every statement executed and committed.
CmdSucceeded ==
    /\ sqlexec = "object"
    /\ CursorAcquired
    /\ FailedExecutes = {}
    /\ Len(Executed) = TotalStatements
    /\ \E k \in Commits : events[k].res = "ok"

\* C10: cmd ends with status 0 when every statement ran and was committed,
\* with status 2 when the run failed on a missing or unreadable SQL file or
\* exclude file, and with status 3 when it failed on anything else: reading
\* a file's text, connecting, or exec().  (The provider failing to read its
\* ini file is left open: it is a missing file and a connection failure.)
C10_ExitStatus ==
    entry = "cmd" /\ pc = "done" =>
        IF sqlexec = "None"
        THEN /\ (exc.site \in {"exclude", "check", "open"} => status = 2)
             /\ (exc.site = "read" => status = 3)
             /\ (exc = Raised("SQLException", "connect") => status = 3)
        ELSE /\ (CmdSucceeded => status = 0)
             /\ (~CmdSucceeded => status = 3)

\* The positions of text on a line that begins with '-'.
CommentPositions(text) ==
    {i \in 1..Len(text) :
        /\ text[i] # "\n"
        /\ LET starts == {j \in 1..i : j = 1 \/ text[j - 1] = "\n"}
               first == CHOOSE j \in starts : \A m \in starts : m <= j
           IN  text[first] = "-"}

\* C5: no token of an extracted statement was read from a line that begins
\* with '-'.
C5_CommentLinesRemoved ==
    extracted =>
        \A k \in 1..Len(commands) : \A i \in 1..Len(commands[k]) :
            commands[k][i].at \notin CommentPositions(contents)

====
